---- MODULE Spec2Model ----
(***************************************************************************)
(* A model of libuvc_camera's CameraDriver (camera_driver.cpp): the        *)
(* Initial / Stopped / Running lifecycle, the configuration handler, the   *)
(* frame and status callbacks, and the device-layer calls they issue.      *)
(*                                                                         *)
(* Every handler is a sequence of steps of the thread that runs it; the    *)
(* position of each thread is pc[t].  Spec runs the handlers one at a      *)
(* time (a handler starts only when every thread is idle); SpecConc lets   *)
(* the handlers of different threads interleave.                           *)
(* SpecImage runs them one at a time with a client that varies the image    *)
(* dimensions, for the size arithmetic of the frame callback.              *)
(***************************************************************************)
EXTENDS Integers, Sequences, FiniteSets, TLC

VARIABLES
  state_,           \* CameraDriver::state_
  ctx_,             \* CameraDriver::ctx_   (NULL_ or the context)
  dev_,             \* CameraDriver::dev_   (NULL_ or the device reference)
  devh_,            \* CameraDriver::devh_  (NULL_ or the device handle)
  rgb_frame_,       \* CameraDriver::rgb_frame_ (scratch frame)
  creation_,        \* CameraDriver::creation_
  config_changed_,  \* CameraDriver::config_changed_
  config_,          \* CameraDriver::config_
  ctxLive,          \* device layer: the context behind ctx_ is initialised
  devRefs,          \* device layer: references the driver holds on the device
  hOpen,            \* device layer: the handle behind devh_ is open
  streaming,        \* device layer: frames are being delivered
  statusCb,         \* device layer: a status callback is registered
  negotiated,       \* device layer: the stream control block in force
  srv,              \* configuration server: its current configuration
  mutexOwner,       \* CameraDriver::mutex_ (the member): owning thread
  pc,               \* position of each thread
  op,               \* the top-level operation each thread is running
  nc,               \* new_config of the server's request (cfg thread)
  level,            \* (level & kReconfigureClose) == kReconfigureClose
  frame,            \* the uvc_frame_t handed to ImageCallback
  status,           \* the arguments handed to AutoControlsCallback
  fault,            \* "none", or the assertion / fault that ended the process
  startRet,         \* the value Start() returned
  calls,            \* per thread: device-layer calls of the current handler
  openResult,       \* per thread: outcome of the handler's OpenCamera
  nc0,              \* the request as delivered (before any revert)
  old,              \* config_ when the current cfg handler was entered
  state0,           \* state_ when the current cfg handler was entered
  pre               \* the driver's fields when the current callback was entered

vars == << state_, ctx_, dev_, devh_, rgb_frame_, creation_, config_changed_,
           config_, ctxLive, devRefs, hOpen, streaming, statusCb, negotiated,
           srv, mutexOwner, pc, op, nc, level, frame, status, fault,
           startRet, calls, openResult, nc0, old, state0, pre >>

drv == << state_, ctx_, dev_, devh_, rgb_frame_, creation_, config_changed_, config_ >>
lib == << ctxLive, devRefs, hOpen, streaming, statusCb, negotiated >>
inp == << frame, status, state0, pre >>

-----------------------------------------------------------------------------
(* Bounds of the model *)

\* widths the configuration client asks for: 1 .. MaxDim
MaxDim == 2
\* pan positions the configuration client asks for: 0 .. MaxCtl
MaxCtl == 1
\* handlers in progress at once in the interleaved specification
MaxActive == 2
\* device references held at once (interleaved opens can leak references)
MaxRefs == 2

-----------------------------------------------------------------------------
(* Names *)

kInitial == "kInitial"
kStopped == "kStopped"
kRunning == "kRunning"

NULL_ == "NULL"
CTX   == "ctx"
DEV   == "dev"
DEVH  == "devh"

Threads == {"main", "cfg", "frame", "status"}

\* the scratch frame: rgb_frame_ == NULL, or a frame of `bytes` bytes
NoFrame == [alloc |-> FALSE, bytes |-> 0]
uvc_allocate_frame(n) == [alloc |-> TRUE, bytes |-> n]

\* no frame / no status event is being handled
NoInput == [data_null |-> TRUE, frame_format |-> "none", conv_ok |-> FALSE]
NoEvent == [class |-> "none", selector |-> "none", attribute |-> "none", data |-> << >>]

NoCtrl == [valid |-> FALSE, width |-> 0, height |-> 0, frame_rate |-> 0,
           video_mode |-> "none"]

-----------------------------------------------------------------------------
(* UVCCameraConfig.  exposure_absolute is a double in seconds; the model   *)
(* keeps it as a whole number of 1/100000 s, so that the factor 10000 of   *)
(* the control write and the factor 0.0001 of the status decode are real   *)
(* conversions.                                                            *)

BaseConfig ==
  [ width |-> 1, height |-> 1, frame_rate |-> 15, video_mode |-> "uncompressed",
    scanning_mode |-> 0, auto_exposure |-> 3, auto_exposure_priority |-> 0,
    exposure_absolute |-> 1000, auto_focus |-> TRUE, focus_absolute |-> 0,
    gain |-> 0, iris_absolute |-> 0, brightness |-> 0,
    pan_absolute |-> 0, tilt_absolute |-> 0,
    white_balance_temperature |-> 0 ]

\* exposure times the configuration client asks for: 0.01 s and 0.02 s
ExposureRequests == {1000, 2000}

\* the fields whose level is kReconfigureClose (the stream parameters)
StreamFields == {"width", "height", "frame_rate", "video_mode"}

\* the requests of the configuration client: the server's configuration s
\* with the fields the client varies in this model set anew
Requests(s) ==
  { [s EXCEPT !.width = w, !.exposure_absolute = e, !.pan_absolute = p] :
      w \in 1..MaxDim, e \in ExposureRequests, p \in 0..MaxCtl }

InitConfigs == Requests(BaseConfig)

\* the requests of a client that changes the stream width only
WidthRequests(s) == { [s EXCEPT !.width = w] : w \in 1..MaxDim }

\* the requests drawn when handlers run one at a time / interleaved
RequestsOf(k, s) == IF k = 1 THEN Requests(s) ELSE WidthRequests(s)

\* image dimensions a client may ask for: the small ones, zero included, the
\* largest size under the ceiling of line 197 (1920 x 1080), one row more, and
\* a size whose byte count does not fit 32 bits (32768 x 43691 x 3 = 2^32 + 32768)
ImageDims ==
  ((0..(MaxDim - 1)) \X (0..(MaxDim - 1)))
  \cup { << 1920, 1080 >>, << 1920, 1081 >>, << 32768, 43691 >> }

\* the requests of a client that changes width and height only
DimRequests(s) == { [s EXCEPT !.width = d[1], !.height = d[2]] : d \in ImageDims }

\* the frame sizes the camera offers: every size up to MaxDim x MaxDim
Negotiable(c) == c.width \in 1..MaxDim /\ c.height \in 1..MaxDim

\* the server sets the reopen bit when a stream parameter differs from its
\* current configuration
ReopenBit(new, cur) == \E f \in StreamFields : new[f] # cur[f]

-----------------------------------------------------------------------------
(* Initial state: the state the constructor leaves (lines 45-56); the      *)
(* configuration server has delivered its first configuration while        *)
(* creation_ is true, so config_ is the server's configuration.            *)

InitWith(configs) ==
  /\ state_ = kInitial
  /\ ctx_ = NULL_ /\ dev_ = NULL_ /\ devh_ = NULL_
  /\ rgb_frame_ = NoFrame
  /\ creation_ = TRUE
  /\ config_changed_ = FALSE
  /\ config_ \in configs
  /\ ctxLive = FALSE /\ devRefs = 0 /\ hOpen = FALSE
  /\ streaming = FALSE /\ statusCb = FALSE /\ negotiated = NoCtrl
  /\ srv = config_
  /\ mutexOwner = "none"
  /\ pc = [t \in Threads |-> "idle"]
  /\ op = [t \in Threads |-> "none"]
  /\ nc = config_ /\ nc0 = config_ /\ old = config_
  /\ level = FALSE
  /\ frame = NoInput /\ status = NoEvent
  /\ fault = "none"
  /\ startRet = "none"
  /\ calls = [t \in Threads |-> << >>]
  /\ openResult = [t \in Threads |-> "none"]
  /\ state0 = "none"
  /\ pre = "none"

Init == InitWith(InitConfigs)
InitConc == InitWith({BaseConfig})

-----------------------------------------------------------------------------
(* Helpers *)

Alive == fault = "none"
Quiet == \A t \in Threads : pc[t] = "idle"

\* a handler may start while fewer than k handlers are in progress
MayStart(k) == Alive /\ Cardinality({t \in Threads : pc[t] # "idle"}) < k

Goto(t, l) == pc' = [pc EXCEPT ![t] = l]

\* one device-layer call, as recorded in calls[t]
Call(fn, val, val2, ok) == [fn |-> fn, val |-> val, val2 |-> val2, ok |-> ok]
Log(t, entries) == calls' = [calls EXCEPT ![t] = @ \o entries]

\* assert(...) failing: the process aborts where it stands
Abort(what) ==
  /\ fault' = what
  /\ UNCHANGED << drv, lib, srv, mutexOwner, pc, op, nc, level, startRet,
                  calls, openResult, nc0, old >>

\* new_config of the ReconfigureCallback run by thread t: Start passes config_
\* itself by reference (line 82), the server passes its request
NewConfig(t) == IF t = "main" THEN config_ ELSE nc
Level(t) == IF t = "main" THEN FALSE ELSE level

Dec(n) == IF n > 0 THEN n - 1 ELSE 0

\* the fields a callback can see on entry; kept while the handlers run one at
\* a time, so that what a callback changed can be told from what it found
Entered(k) ==
  IF k = 1
  THEN [state_ |-> state_, config_ |-> config_, devh_ |-> devh_,
        rgb_frame_ |-> rgb_frame_, config_changed_ |-> config_changed_,
        srv |-> srv]
  ELSE "none"

-----------------------------------------------------------------------------
(* Start, lines 66-85 *)

\* a Start without its assertion
StartPrecondition_Any == TRUE

\* assert(state_ == kInitial), line 67
StartPrecondition == state_ = kInitial

\* the caller invokes Start()
CallStart(k) ==
  /\ UNCHANGED inp
  /\ MayStart(k) /\ pc["main"] = "idle"
  /\ pc' = [pc EXCEPT !["main"] = "Start"]
  /\ op' = [op EXCEPT !["main"] = "Start"]
  /\ startRet' = "none"
  /\ UNCHANGED << drv, lib, srv, mutexOwner, nc, level, fault, calls,
                  openResult, nc0, old >>

\* lines 67-81: the assertion, uvc_init, state_ = kStopped, creation_ = false;
\* then line 82 enters ReconfigureCallback(config_, 0)
Start(t) ==
  /\ UNCHANGED inp
  /\ Alive /\ pc[t] = "Start"
  /\ IF ~StartPrecondition
     THEN Abort("assert:67")
     ELSE \E ok \in BOOLEAN :
       /\ Log(t, << Call("uvc_init", IF ctxLive THEN 1 ELSE 0, 0, ok) >>)
       /\ IF ok
          THEN /\ ctx_' = CTX /\ ctxLive' = TRUE
               /\ state_' = kStopped
               /\ creation_' = FALSE
               /\ Goto(t, "rc_entry")
               /\ UNCHANGED startRet
          ELSE /\ startRet' = "false"
               /\ Goto(t, "ret")
               /\ UNCHANGED << ctx_, ctxLive, state_, creation_ >>
       /\ UNCHANGED << dev_, devh_, rgb_frame_, config_changed_, config_,
                       devRefs, hOpen, streaming, statusCb, negotiated, srv,
                       mutexOwner, op, nc, level, fault, openResult, nc0, old >>

-----------------------------------------------------------------------------
(* Stop, lines 87-101.  Line 88, boost::recursive_mutex::scoped_lock(mutex_);  *)
(* declares a local lock object named mutex_ that owns no mutex: the member   *)
(* mutex_ is not acquired (the same statement opens ReconfigureCallback,      *)
(* ImageCallback and AutoControlsCallback, lines 110, 175, 272).              *)

\* the caller invokes Stop()
CallStop(k) ==
  /\ UNCHANGED inp
  /\ MayStart(k) /\ pc["main"] = "idle"
  /\ pc' = [pc EXCEPT !["main"] = "Stop"]
  /\ op' = [op EXCEPT !["main"] = "Stop"]
  /\ UNCHANGED << drv, lib, srv, mutexOwner, nc, level, fault, startRet,
                  calls, openResult, nc0, old >>

\* a Stop that releases the context without closing the device first
Stop_SkipsClose(t) ==
  /\ UNCHANGED inp
  /\ Alive /\ pc[t] = "Stop"
  /\ IF state_ = kInitial
     THEN Abort("assert:90")
     ELSE /\ Goto(t, "stop_exit")
          /\ UNCHANGED << drv, lib, srv, mutexOwner, op, nc, level, fault,
                          startRet, calls, openResult, nc0, old >>

\* lines 88-93: the assertion, then CloseCamera() when Running
Stop(t) ==
  /\ UNCHANGED inp
  /\ Alive /\ pc[t] = "Stop"
  /\ IF state_ = kInitial
     THEN Abort("assert:90")
     ELSE /\ Goto(t, IF state_ = kRunning THEN "cc" ELSE "stop_exit")
          /\ UNCHANGED << drv, lib, srv, mutexOwner, op, nc, level, fault,
                          startRet, calls, openResult, nc0, old >>

\* lines 95-100: the assertion, uvc_exit(ctx_), ctx_ = NULL, state_ = kInitial
StopExit(t) ==
  /\ UNCHANGED inp
  /\ Alive /\ pc[t] = "stop_exit"
  /\ IF state_ # kStopped
     THEN Abort("assert:95")
     ELSE /\ Log(t, << Call("uvc_exit", 0, 0, ctxLive) >>)
          /\ ctxLive' = FALSE
          /\ ctx_' = NULL_
          /\ state_' = kInitial
          /\ Goto(t, "ret")
          /\ UNCHANGED << dev_, devh_, rgb_frame_, creation_, config_changed_,
                          config_, devRefs, hOpen, streaming, statusCb,
                          negotiated, srv, mutexOwner, op, nc, level, fault,
                          startRet, openResult, nc0, old >>

-----------------------------------------------------------------------------
(* CloseCamera, lines 435-445.  uvc_close ends the stream; it returns only  *)
(* once the streaming mechanism has stopped delivering frame callbacks     *)
(* (every uvc_close of the model waits for the frame thread to be idle).   *)

CloseCamera(t) ==
  /\ UNCHANGED inp
  /\ Alive /\ pc[t] = "cc"
  /\ IF state_ # kRunning
     THEN Abort("assert:436")
     ELSE /\ pc["frame"] = "idle"
          /\ Log(t, << Call("uvc_close", 0, 0, hOpen),
                       Call("uvc_unref_device", 0, 0, devRefs > 0) >>)
          /\ hOpen' = FALSE /\ streaming' = FALSE /\ statusCb' = FALSE
          /\ negotiated' = NoCtrl
          /\ devh_' = NULL_
          /\ devRefs' = Dec(devRefs)
          /\ dev_' = NULL_
          /\ state_' = kStopped
          /\ Goto(t, IF op[t] = "Stop" THEN "stop_exit" ELSE "rc_open")
          /\ UNCHANGED << ctx_, rgb_frame_, creation_, config_changed_, config_,
                          ctxLive, srv, mutexOwner, op, nc, level, fault,
                          startRet, openResult, nc0, old >>

-----------------------------------------------------------------------------
(* ReconfigureCallback, lines 103-169 *)

\* the configuration server delivers a request: it takes mutex_ (the member it
\* was constructed with, line 53), computes the level mask against its current
\* configuration and calls the callback (state0 and old, what the handler
\* found on entry, are kept while the handlers run one at a time)
DeliverOf(k, requests) ==
  /\ state0' = IF k = 1 THEN state_ ELSE "none"
  /\ UNCHANGED << frame, status, pre >>
  /\ MayStart(k) /\ pc["cfg"] = "idle"
  /\ mutexOwner = "none"
  /\ \E r \in requests :
       /\ nc' = r /\ nc0' = r
       /\ level' = ReopenBit(r, srv)
  /\ old' = IF k = 1 THEN config_ ELSE old
  /\ mutexOwner' = "cfg"
  /\ pc' = [pc EXCEPT !["cfg"] = "rc_entry"]
  /\ op' = [op EXCEPT !["cfg"] = "Reconfigure"]
  /\ UNCHANGED << drv, lib, srv, fault, startRet, calls, openResult >>

\* a client that varies the stream width and the controls
Deliver(k) == DeliverOf(k, RequestsOf(k, srv))

\* a client that varies the image dimensions only
DeliverDims(k) == DeliverOf(k, DimRequests(srv))

\* a handler that ignores the reopen bit
CloseRequested_Never(t) == FALSE

\* line 112: (level & kReconfigureClose) == kReconfigureClose
CloseRequested(t) == Level(t)

\* lines 104-115: the creation_ shortcut, then the close decision
ReconfigureCallback(t) ==
  /\ UNCHANGED inp
  /\ Alive /\ pc[t] = "rc_entry"
  /\ IF creation_
     THEN /\ config_' = NewConfig(t)
          /\ Goto(t, "ret")
     ELSE /\ Goto(t, IF CloseRequested(t) /\ state_ = kRunning THEN "cc" ELSE "rc_open")
          /\ UNCHANGED config_
  /\ UNCHANGED << state_, ctx_, dev_, devh_, rgb_frame_, creation_,
                  config_changed_, lib, srv, mutexOwner, op, nc, level, fault,
                  startRet, calls, openResult, nc0, old >>

-----------------------------------------------------------------------------
(* OpenCamera, lines 344-433, entered from line 117 when state_ == kStopped *)

\* the stream control block uvc_get_stream_ctrl_format_size fills, lines 400-404
StreamCtrl(c, valid) ==
  [valid |-> valid, width |-> c.width, height |-> c.height,
   frame_rate |-> c.frame_rate, video_mode |-> c.video_mode]

\* line 429: the size handed to uvc_allocate_frame
ScratchBytes(c) == c.width * c.height * 3

\* lines 117, 345-365: the state test and uvc_find_device
OpenFind(t) ==
  /\ UNCHANGED inp
  /\ Alive /\ pc[t] = "rc_open"
  /\ IF state_ # kStopped
     THEN /\ Goto(t, "rc_ctl")
          /\ UNCHANGED << dev_, devRefs, calls, openResult >>
     ELSE \E ok \in BOOLEAN :
          /\ ok => devRefs < MaxRefs
          /\ Log(t, << Call("uvc_find_device", 0, 0, ok) >>)
          /\ IF ok
             THEN /\ dev_' = DEV /\ devRefs' = devRefs + 1
                  /\ Goto(t, "oc_open")
                  /\ UNCHANGED openResult
             ELSE /\ openResult' = [openResult EXCEPT ![t] = "find"]
                  /\ Goto(t, "rc_ctl")
                  /\ UNCHANGED << dev_, devRefs >>
  /\ UNCHANGED << state_, ctx_, devh_, rgb_frame_, creation_, config_changed_,
                  config_, ctxLive, hOpen, streaming, statusCb, negotiated,
                  srv, mutexOwner, op, nc, level, fault, startRet, nc0, old >>

\* lines 367-395: uvc_open; on failure the device is unreferenced, dev_ is kept
OpenDevice(t) ==
  /\ UNCHANGED inp
  /\ Alive /\ pc[t] = "oc_open"
  /\ \E ok \in BOOLEAN :
       IF ok
       THEN /\ Log(t, << Call("uvc_open", 0, 0, TRUE) >>)
            /\ devh_' = DEVH /\ hOpen' = TRUE
            /\ Goto(t, "oc_mode")
            /\ UNCHANGED << devRefs, openResult >>
       ELSE /\ Log(t, << Call("uvc_open", 0, 0, FALSE),
                         Call("uvc_unref_device", 0, 0, devRefs > 0) >>)
            /\ devRefs' = Dec(devRefs)
            /\ openResult' = [openResult EXCEPT ![t] = "open"]
            /\ Goto(t, "rc_ctl")
            /\ UNCHANGED << devh_, hOpen >>
  /\ UNCHANGED << state_, ctx_, dev_, rgb_frame_, creation_, config_changed_,
                  config_, ctxLive, streaming, statusCb, negotiated, srv,
                  mutexOwner, op, nc, level, fault, startRet, nc0, old >>

\* lines 397-414: the status callback is registered and the stream format is
\* negotiated; on failure the handle is closed, the device unreferenced and
\* uvc_print_diag is then called on the closed handle (line 412), which reads
\* freed memory: the call returns or the process dies
OpenNegotiate(t) ==
  /\ UNCHANGED inp
  /\ Alive /\ pc[t] = "oc_mode"
  /\ \E ok \in BOOLEAN :
       /\ ok => Negotiable(NewConfig(t))
       /\ IF ok
          THEN /\ Log(t, << Call("uvc_set_status_callback", 0, 0, hOpen),
                            Call("uvc_get_stream_ctrl_format_size",
                                 NewConfig(t).width, NewConfig(t).height, TRUE) >>)
               /\ statusCb' = TRUE
               /\ negotiated' = StreamCtrl(NewConfig(t), FALSE)
               /\ Goto(t, "oc_stream")
               /\ UNCHANGED << hOpen, streaming, devRefs, openResult, fault >>
          ELSE /\ Log(t, << Call("uvc_set_status_callback", 0, 0, hOpen),
                            Call("uvc_get_stream_ctrl_format_size",
                                 NewConfig(t).width, NewConfig(t).height, FALSE),
                            Call("uvc_close", 0, 0, hOpen),
                            Call("uvc_unref_device", 0, 0, devRefs > 0),
                            Call("uvc_print_diag", 0, 0, FALSE) >>)
               /\ pc["frame"] = "idle"
               /\ statusCb' = FALSE
               /\ hOpen' = FALSE /\ streaming' = FALSE
               /\ devRefs' = Dec(devRefs)
               /\ negotiated' = NoCtrl
               /\ openResult' = [openResult EXCEPT ![t] = "mode"]
               /\ \E dies \in BOOLEAN :
                    IF dies
                    THEN fault' = "fault:412" /\ UNCHANGED pc
                    ELSE Goto(t, "rc_ctl") /\ UNCHANGED fault
  /\ UNCHANGED << state_, ctx_, dev_, devh_, rgb_frame_, creation_,
                  config_changed_, config_, ctxLive, srv,
                  mutexOwner, op, nc, level, startRet, nc0, old >>

\* a stream-start failure path that closes the handle but keeps the reference
OpenStream_NoUnref(t) ==
  /\ UNCHANGED inp
  /\ Alive /\ pc[t] = "oc_stream"
  /\ \E ok \in BOOLEAN :
       IF ok
       THEN /\ Log(t, << Call("uvc_start_iso_streaming", 0, 0, TRUE) >>)
            /\ streaming' = TRUE
            /\ negotiated' = [negotiated EXCEPT !.valid = TRUE]
            /\ Goto(t, "oc_alloc")
            /\ UNCHANGED << hOpen, statusCb, devRefs, openResult >>
       ELSE /\ Log(t, << Call("uvc_start_iso_streaming", 0, 0, FALSE),
                         Call("uvc_close", 0, 0, hOpen) >>)
            /\ pc["frame"] = "idle"
            /\ hOpen' = FALSE /\ statusCb' = FALSE /\ streaming' = FALSE
            /\ negotiated' = NoCtrl
            /\ openResult' = [openResult EXCEPT ![t] = "stream"]
            /\ Goto(t, "rc_ctl")
            /\ UNCHANGED devRefs
  /\ UNCHANGED << state_, ctx_, dev_, devh_, rgb_frame_, creation_,
                  config_changed_, config_, ctxLive, srv, mutexOwner, op, nc,
                  level, fault, startRet, nc0, old >>

\* lines 416-424: uvc_start_iso_streaming; from its success on, frames are
\* delivered
OpenStream(t) ==
  /\ UNCHANGED inp
  /\ Alive /\ pc[t] = "oc_stream"
  /\ \E ok \in BOOLEAN :
       IF ok
       THEN /\ Log(t, << Call("uvc_start_iso_streaming", 0, 0, TRUE) >>)
            /\ streaming' = TRUE
            /\ negotiated' = [negotiated EXCEPT !.valid = TRUE]
            /\ Goto(t, "oc_alloc")
            /\ UNCHANGED << hOpen, statusCb, devRefs, openResult >>
       ELSE /\ Log(t, << Call("uvc_start_iso_streaming", 0, 0, FALSE),
                         Call("uvc_close", 0, 0, hOpen),
                         Call("uvc_unref_device", 0, 0, devRefs > 0) >>)
            /\ pc["frame"] = "idle"
            /\ hOpen' = FALSE /\ statusCb' = FALSE /\ streaming' = FALSE
            /\ devRefs' = Dec(devRefs)
            /\ negotiated' = NoCtrl
            /\ openResult' = [openResult EXCEPT ![t] = "stream"]
            /\ Goto(t, "rc_ctl")
  /\ UNCHANGED << state_, ctx_, dev_, devh_, rgb_frame_, creation_,
                  config_changed_, config_, ctxLive, srv, mutexOwner, op, nc,
                  level, fault, startRet, nc0, old >>

\* lines 426-432: the scratch frame is replaced and state_ becomes kRunning
OpenFinish(t) ==
  /\ UNCHANGED inp
  /\ Alive /\ pc[t] = "oc_alloc"
  /\ Log(t, (IF rgb_frame_.alloc THEN << Call("uvc_free_frame", 0, 0, TRUE) >> ELSE << >>)
            \o << Call("uvc_allocate_frame", ScratchBytes(NewConfig(t)), 0, TRUE) >>)
  /\ rgb_frame_' = uvc_allocate_frame(ScratchBytes(NewConfig(t)))
  /\ state_' = kRunning
  /\ openResult' = [openResult EXCEPT ![t] = "ok"]
  /\ Goto(t, "rc_ctl")
  /\ UNCHANGED << ctx_, dev_, devh_, creation_, config_changed_, config_, lib,
                  srv, mutexOwner, op, nc, level, fault, startRet, nc0, old >>

-----------------------------------------------------------------------------
(* Control writes of ReconfigureCallback, lines 124-168 *)

\* the PARAM_INT expansions of lines 136-144, in order
ParamTable ==
  << [name |-> "scanning_mode",          fn |-> "uvc_set_scanning_mode"],
     [name |-> "auto_exposure",          fn |-> "uvc_set_ae_mode"],
     [name |-> "auto_exposure_priority", fn |-> "uvc_set_ae_priority"],
     [name |-> "exposure_absolute",      fn |-> "uvc_set_exposure_abs"],
     [name |-> "auto_focus",             fn |-> "uvc_set_focus_auto"],
     [name |-> "focus_absolute",         fn |-> "uvc_set_focus_abs"],
     [name |-> "gain",                   fn |-> "uvc_set_gain"],
     [name |-> "iris_absolute",          fn |-> "uvc_set_iris_abs"],
     [name |-> "brightness",             fn |-> "uvc_set_brightness"] >>

\* an exposure written in thousandths of a second
ParamValue_Millis(name, c) ==
  CASE name = "auto_exposure"     -> 2 ^ c.auto_exposure
    [] name = "exposure_absolute" -> (c.exposure_absolute * 1000) \div 100000
    [] name = "auto_focus"        -> IF c.auto_focus THEN 1 ELSE 0
    [] OTHER                      -> c[name]

\* the third argument of each PARAM_INT: int val = (value)
ParamValue(name, c) ==
  CASE name = "auto_exposure"     -> 2 ^ c.auto_exposure
    [] name = "exposure_absolute" -> (c.exposure_absolute * 10000) \div 100000
    [] name = "auto_focus"        -> IF c.auto_focus THEN 1 ELSE 0
    [] OTHER                      -> c[name]

PanTiltChanged(new, cur) ==
  new.pan_absolute # cur.pan_absolute \/ new.tilt_absolute # cur.tilt_absolute

\* the controls the handler will ask the device to set
Changed(new, cur) ==
  { ParamTable[i].name : i \in { j \in 1..Len(ParamTable) :
                                   new[ParamTable[j].name] # cur[ParamTable[j].name] } }
  \cup (IF PanTiltChanged(new, cur) THEN {"pantilt"} ELSE {})

\* a PARAM_INT that keeps the requested value when the device rejects it
ParamInt_NoRevert(p, acc, cur, rejected) ==
  IF acc.new[p.name] # cur[p.name]
  THEN [ new |-> acc.new,
         log |-> Append(acc.log, Call(p.fn, ParamValue(p.name, acc.new), 0,
                                      p.name \notin rejected)) ]
  ELSE acc

\* one PARAM_INT, lines 125-134: write when the field differs; a rejected
\* field is reverted in new_config
ParamInt(p, acc, cur, rejected) ==
  IF acc.new[p.name] # cur[p.name]
  THEN LET ok == p.name \notin rejected IN
       [ new |-> IF ok THEN acc.new ELSE [acc.new EXCEPT ![p.name] = cur[p.name]],
         log |-> Append(acc.log, Call(p.fn, ParamValue(p.name, acc.new), 0, ok)) ]
  ELSE acc

RECURSIVE ParamInts(_, _, _, _)
ParamInts(i, acc, cur, rejected) ==
  IF i > Len(ParamTable) THEN acc
  ELSE ParamInts(i + 1, ParamInt(ParamTable[i], acc, cur, rejected), cur, rejected)

\* lines 147-153: pan and tilt are written together and reverted together
PanTilt(acc, cur, rejected) ==
  IF PanTiltChanged(acc.new, cur)
  THEN LET ok == "pantilt" \notin rejected IN
       [ new |-> IF ok THEN acc.new
                 ELSE [acc.new EXCEPT !.pan_absolute = cur.pan_absolute,
                                      !.tilt_absolute = cur.tilt_absolute],
         log |-> Append(acc.log, Call("uvc_set_pantilt_abs", acc.new.pan_absolute,
                                      acc.new.tilt_absolute, ok)) ]
  ELSE acc

\* lines 136-153: new_config after the writes, and the writes issued
ApplyControls(new, cur, rejected) ==
  PanTilt(ParamInts(1, [new |-> new, log |-> << >>], cur, rejected), cur, rejected)

\* lines 124-168 (line 167, config_ = new_config, sits inside the if of line
\* 124: the snapshot is committed only when state_ == kRunning), and the return to the caller: Start's line 84, or the server
ControlSync(t) ==
  /\ UNCHANGED inp
  /\ Alive /\ pc[t] = "rc_ctl"
  /\ IF state_ = kRunning
     THEN \E rejected \in SUBSET Changed(NewConfig(t), config_) :
            LET r == ApplyControls(NewConfig(t), config_, rejected) IN
            /\ Log(t, r.log)
            /\ nc' = IF t = "main" THEN nc ELSE r.new
            /\ config_' = r.new
     ELSE UNCHANGED << config_, nc, calls >>
  /\ startRet' = IF op[t] = "Start"
                 THEN (IF state_ = kRunning THEN "true" ELSE "false")
                 ELSE startRet
  /\ Goto(t, "ret")
  /\ UNCHANGED << state_, ctx_, dev_, devh_, rgb_frame_, creation_,
                  config_changed_, lib, srv, mutexOwner, op, level, fault,
                  openResult, nc0, old >>

\* the handler of thread t returns to its caller; the configuration server
\* keeps the request, as the callback left it, as its configuration and
\* releases mutex_
Return(t) ==
  /\ Alive /\ pc[t] = "ret"
  /\ Goto(t, "idle")
  /\ op' = [op EXCEPT ![t] = "none"]
  /\ calls' = [calls EXCEPT ![t] = << >>]
  /\ openResult' = [openResult EXCEPT ![t] = "none"]
  /\ startRet' = IF t = "main" THEN "none" ELSE startRet
  /\ IF t = "cfg"
     THEN /\ srv' = nc /\ nc0' = nc /\ old' = nc
          /\ level' = FALSE
          /\ mutexOwner' = "none"
     ELSE UNCHANGED << srv, nc0, old, level, mutexOwner >>
  /\ frame' = IF t = "frame" THEN NoInput ELSE frame
  /\ status' = IF t = "status" THEN NoEvent ELSE status
  /\ state0' = IF t = "cfg" THEN "none" ELSE state0
  /\ pre' = IF t \in {"frame", "status"} THEN "none" ELSE pre
  /\ UNCHANGED << drv, lib, nc, fault >>

-----------------------------------------------------------------------------
(* ImageCallback, lines 171-258 *)

FrameFormats == {"BGR", "RGB", "UYVY", "YUYV", "MJPEG", "GRAY8"}

\* bytes per pixel of a captured frame of each format (MJPEG: compressed)
BytesPerPixel(fmt) ==
  CASE fmt \in {"BGR", "RGB"}   -> 3
    [] fmt \in {"UYVY", "YUYV"} -> 2
    [] OTHER                    -> 1

\* frame->data_bytes of a frame of the negotiated stream
FrameBytes(fmt) == negotiated.width * negotiated.height * BytesPerPixel(fmt)

\* lines 204-242: the encoding label of the published image
Encoding(fmt) ==
  CASE fmt = "BGR"   -> "bgr8"
    [] fmt = "RGB"   -> "rgb8"
    [] fmt = "UYVY"  -> "yuv422"
    [] fmt = "MJPEG" -> "rgb8"
    [] OTHER         -> "bgr8"

\* lines 203-211: the formats copied straight from the captured frame
PassThrough(fmt) == fmt \in {"BGR", "RGB", "UYVY"}

\* uint32_t values (image->width, height and step) are kept as two 16-bit
\* limbs << high, low >>, so that the products of lines 196-201 wrap at 2^32
U32(n) == << (n \div 65536) % 65536, n % 65536 >>
\* the value of a uint32_t below 2^31
Val32(x) == x[1] * 65536 + x[2]
\* the full product of two 16-bit limbs, as << high, low >>
Mul16(a, b) ==
  LET a1 == a \div 256  a0 == a % 256
      b1 == b \div 256  b0 == b % 256
      low == (a1 * b0 + a0 * b1) * 256 + a0 * b0
  IN  << a1 * b1 + low \div 65536, low % 65536 >>
\* x * y in uint32_t arithmetic
Mul32(x, y) ==
  LET p == Mul16(x[2], y[2])
  IN  << (p[1] + Mul16(x[1], y[2])[2] + Mul16(x[2], y[1])[2]) % 65536, p[2] >>
Gt32(x, y) == x[1] > y[1] \/ (x[1] = y[1] /\ x[2] > y[2])

\* line 197: the ceiling 1920*1080*3
MaxImageBytes == 1920 * 1080 * 3

\* a row stride of four bytes per pixel
ImageStep_FourBytes(c) == Mul32(U32(c.width), U32(4))

\* lines 196-197: image->step = image->width * 3 and image->step * image->height
ImageStep(c) == Mul32(U32(c.width), U32(3))
ImageSize(c) == Mul32(ImageStep(c), U32(c.height))

\* the frames the streaming mechanism hands over: a null payload, or a frame
\* of some format whose conversion succeeds or fails
Frames ==
  { NoInput } \cup
  [data_null : {FALSE}, frame_format : FrameFormats, conv_ok : BOOLEAN]
FramesOf(k) ==
  IF k = 1 THEN Frames
  ELSE { f \in Frames : f.data_null \/ (f.frame_format = "BGR" /\ f.conv_ok) }

\* the streaming mechanism calls ImageCallbackAdapter on its own thread
DeliverFrame(k) ==
  /\ MayStart(k) /\ pc["frame"] = "idle"
  /\ streaming
  /\ frame' \in FramesOf(k)
  /\ pre' = Entered(k)
  /\ UNCHANGED << status, state0 >>
  /\ pc' = [pc EXCEPT !["frame"] = "img_entry"]
  /\ op' = [op EXCEPT !["frame"] = "Image"]
  /\ UNCHANGED << drv, lib, srv, mutexOwner, nc, level, fault, startRet,
                  calls, openResult, nc0, old >>

\* lines 175-184: the null payload is dropped; then the two assertions
ImageEntry(t) ==
  /\ UNCHANGED inp
  /\ pc[t] = "img_entry" /\ Alive
  /\ IF frame.data_null
       THEN /\ Goto(t, "ret")
            /\ Log(t, << Call("drop:null", 0, 0, FALSE) >>)
            /\ UNCHANGED fault
       ELSE IF state_ # kRunning
       THEN fault' = "assert:183" /\ UNCHANGED << pc, calls >>
       ELSE IF ~rgb_frame_.alloc
       THEN fault' = "assert:184" /\ UNCHANGED << pc, calls >>
       ELSE Goto(t, "img_body") /\ UNCHANGED << fault, calls >>
  /\ UNCHANGED << drv, lib, srv, mutexOwner, op, nc, level, startRet,
                  openResult, nc0, old >>

\* a check of the width alone
ZeroSized_WidthOnly(c) == c.width = 0

\* line 188: config_.width == 0 || config_.height == 0
ZeroSized(c) == c.width = 0 \/ c.height = 0

\* lines 194-201, 252: the image built from the stored snapshot, the resize of
\* its buffer, and the publish after `copied` bytes were copied into it
Published(fmt, copied) ==
  << Call("image", config_.width, config_.height, TRUE),
     Call("resize", Val32(ImageSize(config_)), Val32(ImageStep(config_)), TRUE),
     Call("publish:" \o Encoding(fmt), Val32(ImageSize(config_)), copied, TRUE) >>

\* lines 205-243: memcpy into the resized buffer; copying more bytes than the
\* buffer holds writes past its end: the callback goes on or the process dies
Copy(t, fmt, copied) ==
  \E dies \in BOOLEAN :
    /\ dies => copied > Val32(ImageSize(config_))
    /\ IF dies
       THEN fault' = "fault:memcpy" /\ UNCHANGED << pc, calls >>
       ELSE /\ Log(t, Published(fmt, copied))
            /\ Goto(t, IF config_changed_ THEN "img_push" ELSE "ret")
            /\ UNCHANGED fault

\* lines 186-252: the size checks, the conversion or copy, and the publish
ImageBody(t) ==
  /\ UNCHANGED inp
  /\ pc[t] = "img_body" /\ Alive
  /\ LET fmt == frame.frame_format
         conv_ok == frame.conv_ok IN
       IF ZeroSized(config_)
       THEN /\ Log(t, << Call("drop:zero", 0, 0, FALSE) >>)
            /\ Goto(t, "ret")
            /\ UNCHANGED << rgb_frame_, fault >>
       ELSE IF Gt32(ImageSize(config_), U32(MaxImageBytes))
       THEN /\ Log(t, << Call("drop:size", 0, 0, FALSE) >>)
            /\ Goto(t, "ret")
            /\ UNCHANGED << rgb_frame_, fault >>
       ELSE IF PassThrough(fmt)
       THEN /\ Copy(t, fmt, FrameBytes(fmt))
            /\ UNCHANGED rgb_frame_
       ELSE IF ~conv_ok
       THEN /\ Log(t, << Call("drop:convert", 0, 0, FALSE) >>)
            /\ Goto(t, "ret")
            /\ UNCHANGED << rgb_frame_, fault >>
       ELSE /\ rgb_frame_' = uvc_allocate_frame(negotiated.width * negotiated.height * 3)
            /\ Copy(t, fmt, negotiated.width * negotiated.height * 3)
  /\ UNCHANGED << state_, ctx_, dev_, devh_, creation_, config_changed_,
                  config_, lib, srv, mutexOwner, op, nc, level, startRet,
                  openResult, nc0, old >>

\* a push that leaves the dirty flag set
ImagePush_KeepsFlag(t) ==
  /\ UNCHANGED inp
  /\ pc[t] = "img_push" /\ Alive
  /\ mutexOwner = "none"
  /\ Log(t, << Call("updateConfig", 0, 0, TRUE) >>)
  /\ srv' = config_ /\ nc' = config_ /\ nc0' = config_ /\ old' = config_
  /\ Goto(t, "ret")
  /\ UNCHANGED << state_, ctx_, dev_, devh_, rgb_frame_, creation_, config_,
                  config_changed_, lib, mutexOwner, op, level, fault, startRet,
                  openResult >>

\* lines 254-257: the snapshot is pushed to the configuration server, which
\* takes mutex_ for the update, and the dirty flag is cleared
ImagePush(t) ==
  /\ UNCHANGED inp
  /\ pc[t] = "img_push" /\ Alive
  /\ mutexOwner = "none"
  /\ Log(t, << Call("updateConfig", 0, 0, TRUE) >>)
  /\ srv' = config_ /\ nc' = config_ /\ nc0' = config_ /\ old' = config_
  /\ config_changed_' = FALSE
  /\ Goto(t, "ret")
  /\ UNCHANGED << state_, ctx_, dev_, devh_, rgb_frame_, creation_, config_,
                  lib, mutexOwner, op, level, fault, startRet, openResult >>

-----------------------------------------------------------------------------
(* AutoControlsCallback, lines 266-306 *)

StatusClasses == {"CONTROL_CAMERA", "CONTROL_PROCESSING", "CONTROL"}
Selectors == {"CT_EXPOSURE_TIME_ABSOLUTE", "PU_WHITE_BALANCE_TEMPERATURE", "CT_FOCUS_ABSOLUTE"}
Attributes == {"VALUE_CHANGE", "INFO_CHANGE"}
\* the payloads the device sends: 200, little-endian
StatusData == { << 200, 0, 0, 0 >> }

\* lines 283-284: the 32-bit little-endian value
Decode32(d) == d[1] + d[2] * 256 + d[3] * 65536 + d[4] * 16777216
\* line 296: the 16-bit little-endian value
Decode16(d) == d[1] + d[2] * 256

\* the status events the device layer hands over
StatusEvents ==
  [class : StatusClasses, selector : Selectors, attribute : Attributes,
   data : StatusData]
\* a white-balance temperature change
WhiteBalanceEvent(e) ==
  /\ e.attribute = "VALUE_CHANGE" /\ e.class = "CONTROL_PROCESSING"
  /\ e.selector = "PU_WHITE_BALANCE_TEMPERATURE"
\* the events drawn when handlers run one at a time (every event but the
\* white-balance change) / interleaved (the white-balance change and one
\* event the driver does not recognise)
StatusEventsOf(k) ==
  IF k = 1 THEN { e \in StatusEvents : ~WhiteBalanceEvent(e) }
  ELSE { e \in StatusEvents :
           \/ e.attribute = "INFO_CHANGE" /\ e.class = "CONTROL"
              /\ e.selector = "CT_FOCUS_ABSOLUTE"
           \/ WhiteBalanceEvent(e) }

\* the device layer calls AutoControlsCallbackAdapter on its event thread
DeliverStatusOf(k, events) ==
  /\ MayStart(k) /\ pc["status"] = "idle"
  /\ statusCb
  /\ status' \in events
  /\ pre' = Entered(k)
  /\ UNCHANGED << frame, state0 >>
  /\ pc' = [pc EXCEPT !["status"] = "acb"]
  /\ op' = [op EXCEPT !["status"] = "Status"]
  /\ UNCHANGED << drv, lib, srv, mutexOwner, nc, level, fault, startRet,
                  calls, openResult, nc0, old >>

\* a device that reports the events of StatusEventsOf
DeliverStatus(k) == DeliverStatusOf(k, StatusEventsOf(k))

\* a device that reports every event
DeliverStatusAll(k) == DeliverStatusOf(k, StatusEvents)

\* a decode that does not look at the attribute
StatusEffect_AnyAttribute(c, class, selector, attribute, d) ==
  IF class = "CONTROL_CAMERA" /\ selector = "CT_EXPOSURE_TIME_ABSOLUTE"
  THEN [cfg |-> [c EXCEPT !.exposure_absolute = Decode32(d) * 10], dirty |-> TRUE]
  ELSE IF class = "CONTROL_PROCESSING" /\ selector = "PU_WHITE_BALANCE_TEMPERATURE"
  THEN [cfg |-> [c EXCEPT !.white_balance_temperature = Decode16(d)], dirty |-> TRUE]
  ELSE [cfg |-> c, dirty |-> FALSE]

\* lines 277-302: the snapshot after the event, and whether a field was decoded
\* (exposure_int * 0.0001 seconds is exposure_int * 10 units of 1/100000 s)
StatusEffect(c, class, selector, attribute, d) ==
  IF attribute = "VALUE_CHANGE" /\ class = "CONTROL_CAMERA"
     /\ selector = "CT_EXPOSURE_TIME_ABSOLUTE"
  THEN [cfg |-> [c EXCEPT !.exposure_absolute = Decode32(d) * 10], dirty |-> TRUE]
  ELSE IF attribute = "VALUE_CHANGE" /\ class = "CONTROL_PROCESSING"
          /\ selector = "PU_WHITE_BALANCE_TEMPERATURE"
  THEN [cfg |-> [c EXCEPT !.white_balance_temperature = Decode16(d)], dirty |-> TRUE]
  ELSE [cfg |-> c, dirty |-> FALSE]

AutoControlsCallback(t) ==
  /\ UNCHANGED inp
  /\ pc[t] = "acb" /\ Alive
  /\ LET e == StatusEffect(config_, status.class, status.selector,
                           status.attribute, status.data) IN
       /\ config_' = e.cfg
       /\ config_changed_' = (config_changed_ \/ e.dirty)
  /\ Goto(t, "ret")
  /\ UNCHANGED << state_, ctx_, dev_, devh_, rgb_frame_, creation_, lib, srv,
                  mutexOwner, op, nc, level, fault, startRet, calls,
                  openResult, nc0, old >>

-----------------------------------------------------------------------------
(* Specifications *)

Step ==
  \/ \E t \in {"main"} : Start(t) \/ Stop(t) \/ StopExit(t)
  \/ \E t \in {"main", "cfg"} :
       \/ ReconfigureCallback(t) \/ CloseCamera(t)
       \/ OpenFind(t) \/ OpenDevice(t) \/ OpenNegotiate(t) \/ OpenStream(t)
       \/ OpenFinish(t) \/ ControlSync(t)
  \/ \E t \in {"frame"} : ImageEntry(t) \/ ImageBody(t) \/ ImagePush(t)
  \/ \E t \in {"status"} : AutoControlsCallback(t)
  \/ \E t \in Threads : Return(t)

\* handlers run one at a time
Next ==
  \/ CallStart(1) \/ CallStop(1) \/ Deliver(1)
  \/ DeliverFrame(1) \/ DeliverStatus(1)
  \/ Step

Spec == Init /\ [][Next]_vars

\* handlers run on their threads, interleaved
NextConc ==
  \/ CallStart(MaxActive) \/ CallStop(MaxActive) \/ Deliver(MaxActive)
  \/ DeliverFrame(MaxActive) \/ DeliverStatus(MaxActive)
  \/ Step

SpecConc == InitConc /\ [][NextConc]_vars

\* handlers run one at a time; the client varies the image dimensions and the
\* device reports every status event
NextImage ==
  \/ CallStart(1) \/ CallStop(1) \/ DeliverDims(1)
  \/ DeliverFrame(1) \/ DeliverStatusAll(1)
  \/ Step

SpecImage == InitConc /\ [][NextImage]_vars

-----------------------------------------------------------------------------
(* Properties *)

\* the positions past the lock statement of Stop, ReconfigureCallback and
\* ImageCallback, where the handler reads and writes the shared state
BodyLabels == {"cc", "stop_exit", "rc_open", "oc_open", "oc_mode", "oc_stream",
               "oc_alloc", "rc_ctl", "img_body", "img_push"}
\* thread t is inside the body of Stop, of the configuration handler the
\* server called, or of the frame callback
InBody(t) == pc[t] \in BodyLabels /\ op[t] \in {"Stop", "Reconfigure", "Image"}

Failures == {"find", "open", "mode", "stream"}
ControlSetters == { ParamTable[i].fn : i \in 1..Len(ParamTable) } \cup {"uvc_set_pantilt_abs"}
IsControlWrite(e) == e.fn \in ControlSetters
HasCall(t, fn) == \E i \in 1..Len(calls[t]) : calls[t][i].fn = fn

\* the configuration handler run by the server has returned
Returned == pc["cfg"] = "ret" /\ op["cfg"] = "Reconfigure"
\* no handler is in progress and the process is alive
AtRest == Quiet /\ Alive

\* C1: the frame callback, the status callback, the configuration handler and
\* Stop are mutually exclusive: at most one thread is inside a handler body.
C1_MutualExclusion == Cardinality({ t \in Threads : InBody(t) }) <= 1

\* C2: with frames delivered only between the successful start of the stream
\* and the return of the handle close, neither precondition assertion of
\* ImageCallback (state Running, scratch frame allocated) ever fails.
C2_FramePreconditions == fault \notin {"assert:183", "assert:184"}

\* C3: whenever the driver is Running, the stored width, height, frame rate
\* and video mode are the ones negotiated at the last successful open, and the
\* scratch frame holds stored width x height x 3 bytes.
C3_RunningMatchesNegotiated ==
  (AtRest /\ state_ = kRunning) =>
     /\ negotiated = StreamCtrl(config_, TRUE)
     /\ rgb_frame_ = uvc_allocate_frame(config_.width * config_.height * 3)

\* C4: whenever the state is Initial or Stopped, devh_ and dev_ denote no
\* device, also after an open attempt that failed.
C4_NoDeviceUnlessRunning ==
  (AtRest /\ state_ \in {kInitial, kStopped}) => (devh_ = NULL_ /\ dev_ = NULL_)

\* C5: a failed open is never fatal: the operation that attempted it goes on
\* to return with state Stopped; Start returns true exactly when the state is
\* Running, and false with state Initial when the context cannot be initialised.
C5_FailedOpenNotFatal ==
  /\ \A t \in {"main", "cfg"} :
       openResult[t] \in Failures =>
         /\ Alive
         /\ pc[t] = "ret" => state_ = kStopped
  /\ (pc["main"] = "ret" /\ op["main"] = "Start") =>
         /\ startRet \in {"true", "false"}
         /\ (startRet = "true") <=> (state_ = kRunning)
         /\ ~HasCall("main", "uvc_find_device") => (startRet = "false" /\ state_ = kInitial)

\* C6: Stop called in Stopped or Running ends in Initial with the context
\* released; the device is closed (state Stopped, no open handle, no stream)
\* by the time the context is released.
C6_StopEndsInitial ==
  op["main"] = "Stop" =>
     /\ fault \notin {"assert:95", "assert:436"}
     /\ pc["main"] = "stop_exit" =>
          (state_ = kStopped /\ ~hOpen /\ ~streaming /\ devRefs = 0 /\ ctxLive)
     /\ pc["main"] = "ret" =>
          /\ state_ = kInitial /\ ctx_ = NULL_ /\ ~ctxLive
          /\ ~hOpen /\ ~streaming /\ devRefs = 0
          /\ calls["main"][Len(calls["main"])].fn = "uvc_exit"
          /\ \A i \in 1..Len(calls["main"]) :
               calls["main"][i].fn = "uvc_close" => i < Len(calls["main"])

\* C6 witness: a Stop called in Running has closed the device and returned
C6_Witness ==
  /\ op["main"] = "Stop" /\ pc["main"] = "ret"
  /\ HasCall("main", "uvc_close") /\ HasCall("main", "uvc_exit")

\* C7: a Stop called in Initial, and a Start called outside Initial, fail their
\* assertion before any device-layer call is issued; no context is initialised
\* over a live one, and no context or handle is released twice.
C7_FailFast ==
  /\ fault = "assert:90" => (state_ = kInitial /\ calls["main"] = << >>)
  /\ fault = "assert:67" => (state_ # kInitial /\ calls["main"] = << >>)
  /\ \A t \in Threads : \A i \in 1..Len(calls[t]) :
       /\ calls[t][i].fn = "uvc_init" => calls[t][i].val = 0
       /\ calls[t][i].fn \in {"uvc_exit", "uvc_close"} => calls[t][i].ok

\* C7 witness: after a completed Start and Stop, a second Stop has aborted
C7_Witness == fault = "assert:90" /\ ~creation_ /\ op["main"] = "Stop"

\* the value field f has in the snapshot the handler should commit: the
\* requested value, or the previous one when the device rejected its write
Expected(f, rejected) == IF rejected THEN old[f] ELSE nc0[f]
Rejected(fn) == \E i \in 1..Len(calls["cfg"]) : calls["cfg"][i].fn = fn /\ ~calls["cfg"][i].ok
SetterOf(f) ==
  IF f \in {"pan_absolute", "tilt_absolute"} THEN "uvc_set_pantilt_abs"
  ELSE ParamTable[CHOOSE i \in 1..Len(ParamTable) : ParamTable[i].name = f].fn
ControlFields == { ParamTable[i].name : i \in 1..Len(ParamTable) }
                 \cup {"pan_absolute", "tilt_absolute"}

\* C8: after every configuration change that returns, whatever the state, the
\* stored snapshot is the request with exactly the rejected control fields
\* reverted to their previous values.
C8_SnapshotCommitted ==
  Returned =>
     \A f \in DOMAIN BaseConfig :
        config_[f] = Expected(f, f \in ControlFields /\ Rejected(SetterOf(f)))

\* C9: a configuration change with the reopen bit that arrives while Running
\* closes the device (state Stopped) before anything else, so every control
\* write follows the close; if the reopen fails the state stays Stopped until
\* the handler returns and no control write is attempted.
C9_CloseBeforeControls ==
  (op["cfg"] = "Reconfigure" /\ level /\ state0 = kRunning) =>
     /\ pc["cfg"] \notin {"rc_entry", "cc"} =>
          (calls["cfg"] # << >> /\ calls["cfg"][1].fn = "uvc_close")
     /\ pc["cfg"] \in {"rc_open", "oc_open", "oc_mode", "oc_stream", "oc_alloc"} =>
          state_ = kStopped
     /\ \A i \in 1..Len(calls["cfg"]) :
          IsControlWrite(calls["cfg"][i]) =>
             \E j \in 1..(i - 1) : calls["cfg"][j].fn = "uvc_close"
     /\ openResult["cfg"] \in Failures =>
          /\ state_ = kStopped
          /\ \A i \in 1..Len(calls["cfg"]) : ~IsControlWrite(calls["cfg"][i])

\* C9 witness: such a change has closed and reopened the device and then
\* written a control
C9_Witness ==
  /\ Returned /\ level /\ state0 = kRunning /\ openResult["cfg"] = "ok"
  /\ \E i \in 1..Len(calls["cfg"]) : IsControlWrite(calls["cfg"][i])

\* the writes of control setter fn issued by the handler
WritesOf(fn) == { i \in 1..Len(calls["cfg"]) : calls["cfg"][i].fn = fn }

\* C10: in one configuration change while Running, every changed control field
\* is written once, whatever the device answered for the others; a rejected
\* field ends at its old value, an accepted one at its new value.
C10_PerFieldRejection ==
  (Returned /\ state_ = kRunning) =>
     /\ \A i \in 1..Len(ParamTable) :
          LET f == ParamTable[i].name
              w == WritesOf(ParamTable[i].fn) IN
          /\ nc0[f] # old[f] =>
               /\ Cardinality(w) = 1
               /\ \A k \in w :
                    /\ calls["cfg"][k].val = ParamValue(f, nc0)
                    /\ config_[f] = IF calls["cfg"][k].ok THEN nc0[f] ELSE old[f]
          /\ nc0[f] = old[f] => (w = {} /\ config_[f] = old[f])
     /\ LET w == WritesOf("uvc_set_pantilt_abs") IN
          /\ PanTiltChanged(nc0, old) =>
               /\ Cardinality(w) = 1
               /\ \A k \in w :
                    /\ config_.pan_absolute =
                         IF calls["cfg"][k].ok THEN nc0.pan_absolute ELSE old.pan_absolute
                    /\ config_.tilt_absolute =
                         IF calls["cfg"][k].ok THEN nc0.tilt_absolute ELSE old.tilt_absolute
          /\ ~PanTiltChanged(nc0, old) => w = {}

\* C10 witness: one change whose first write was rejected and a later one accepted
C10_Witness ==
  /\ Returned /\ state_ = kRunning
  /\ \E i, j \in 1..Len(calls["cfg"]) :
       /\ i < j
       /\ IsControlWrite(calls["cfg"][i]) /\ ~calls["cfg"][i].ok
       /\ IsControlWrite(calls["cfg"][j]) /\ calls["cfg"][j].ok

\* the control writes the configuration handler has issued, in order
ControlWrites == SelectSeq(calls["cfg"], IsControlWrite)
\* the fields control setter fn writes
FieldsOf(fn) == { f \in ControlFields : SetterOf(f) = fn }
\* the request changes exposure_absolute from 0.01 s to 0.02 s and nothing else
OnlyExposure ==
  /\ old.exposure_absolute = 1000
  /\ nc0 = [old EXCEPT !.exposure_absolute = 2000]

\* C11: a configuration change while Running writes only fields whose new value
\* differs from the stored snapshot, once each; a change of exposure_absolute
\* alone from 0.01 to 0.02 issues exactly one write, of the value 200, and the
\* snapshot then holds 0.02 if the device accepted and 0.01 if it rejected.
C11_WritesOnlyChanged ==
  (Returned /\ state_ = kRunning) =>
     /\ \A i \in 1..Len(ControlWrites) :
          /\ \E f \in FieldsOf(ControlWrites[i].fn) : nc0[f] # old[f]
          /\ \A j \in 1..Len(ControlWrites) :
               ControlWrites[j].fn = ControlWrites[i].fn => j = i
     /\ Len(ControlWrites) = Cardinality(Changed(nc0, old))
     /\ OnlyExposure =>
          /\ Len(ControlWrites) = 1
          /\ ControlWrites[1].fn = "uvc_set_exposure_abs"
          /\ ControlWrites[1].val = 200
          /\ config_ = IF ControlWrites[1].ok THEN nc0 ELSE old

\* C11 witness: the exposure-only change was rejected by the device
C11_Witness ==
  /\ Returned /\ state_ = kRunning /\ state0 = kRunning /\ OnlyExposure
  /\ Len(ControlWrites) = 1 /\ ~ControlWrites[1].ok
  /\ config_.exposure_absolute = 1000

\* what the current frame callback has done so far
PublishFns == { "publish:" \o Encoding(fmt) : fmt \in FrameFormats }
Publishes == { i \in 1..Len(calls["frame"]) : calls["frame"][i].fn \in PublishFns }
Pushes == { i \in 1..Len(calls["frame"]) : calls["frame"][i].fn = "updateConfig" }
\* the frame callback has run to its return
FrameDone == pc["frame"] = "ret" /\ op["frame"] = "Image"

\* what holds of the frame callback that returns
C12_AtReturn ==
  /\ pc["frame"] = "img_push" => (Publishes # {} /\ config_changed_)
  /\ FrameDone =>
       /\ Cardinality(Pushes) <= 1
       /\ \A i \in Pushes : \A j \in Publishes : j < i
       /\ (Publishes # {} /\ pre.config_changed_) =>
            (Cardinality(Pushes) = 1 /\ ~config_changed_ /\ srv = config_)
       /\ Publishes = {} =>
            (Pushes = {} /\ config_changed_ = pre.config_changed_ /\ srv = pre.srv)
       /\ ~pre.config_changed_ => Pushes = {}
\* the only step that clears the dirty flag is the push of a frame callback
C12_Clears ==
  (config_changed_ /\ ~config_changed_') =>
     (pc["frame"] = "img_push" /\ pc'["frame"] = "ret" /\ srv' = config_)

\* C12: the dirty flag is consumed only by a frame callback that publishes:
\* that callback pushes the snapshot to the configuration server once, after
\* the publish, and clears the flag; a callback that drops its frame neither
\* pushes nor clears, and nothing is pushed while the flag is clear.
C12_DirtyFlagConsumed == [](C12_AtReturn) /\ [][C12_Clears]_vars

\* C12 witness: a frame callback has published and then pushed the snapshot
C12_Witness ==
  /\ FrameDone /\ pre.config_changed_ /\ ~config_changed_
  /\ Publishes # {} /\ Pushes # {}

\* width x height x 3 is at most 1920 x 1080 x 3, both dimensions non-zero
Fits(c) ==
  c.width > 0 /\ c.height > 0 /\ c.height <= (1920 * 1080) \div c.width
\* the frame handed over is one the callback can convert or copy
Convertible == ~frame.data_null /\ (PassThrough(frame.frame_format) \/ frame.conv_ok)

\* C13: for stored dimensions, both non-zero, with width x height x 3 at most
\* 1920 x 1080 x 3, and a frame whose conversion succeeds, the callback
\* publishes an image of the stored width and height, with step = width x 3
\* and a buffer of exactly width x height x 3 bytes.
C13_PublishedImageSize ==
  (FrameDone /\ Convertible /\ Fits(pre.config_)) =>
     LET c == pre.config_ IN
     /\ Len(calls["frame"]) >= 3
     /\ calls["frame"][1] = Call("image", c.width, c.height, TRUE)
     /\ calls["frame"][2] = Call("resize", c.width * c.height * 3, c.width * 3, TRUE)
     /\ calls["frame"][3].fn = "publish:" \o Encoding(frame.frame_format)
     /\ calls["frame"][3].val = c.width * c.height * 3

\* C13 witness: a frame was published at the largest size under the ceiling
C13_Witness ==
  /\ FrameDone /\ Convertible /\ Publishes # {}
  /\ pre.config_.width = 1920 /\ pre.config_.height = 1080

\* width x height x 3 exceeds 1920 x 1080 x 3
Exceeds(c) ==
  c.width > 0 /\ c.height > 0 /\ c.height > (1920 * 1080) \div c.width

\* C14: for stored dimensions whose size width x height x 3 exceeds
\* 1920 x 1080 x 3, the callback drops the frame: it neither resizes the
\* output buffer nor publishes, also when the size does not fit 32 bits.
C14_OversizeDropped ==
  (FrameDone /\ ~frame.data_null /\ Exceeds(pre.config_)) =>
     /\ Publishes = {}
     /\ \A i \in 1..Len(calls["frame"]) : calls["frame"][i].fn # "resize"
     /\ calls["frame"] = << Call("drop:size", 0, 0, FALSE) >>

\* the callback left the driver's fields and the server's configuration as
\* it found them
Untouched ==
  /\ state_ = pre.state_ /\ config_ = pre.config_ /\ devh_ = pre.devh_
  /\ rgb_frame_ = pre.rgb_frame_ /\ config_changed_ = pre.config_changed_
  /\ srv = pre.srv

\* C15: with stored width 0 or height 0 the frame callback drops the frame
\* and changes nothing: no publish, no push to the configuration server, and
\* state, snapshot, device handle, scratch frame and dirty flag as before.
C15_ZeroSizeDropped ==
  (FrameDone /\ ~frame.data_null
     /\ (pre.config_.width = 0 \/ pre.config_.height = 0)) =>
     /\ calls["frame"] = << Call("drop:zero", 0, 0, FALSE) >>
     /\ Untouched

\* C15 witness: a frame was dropped for a zero height while the flag was set
C15_Witness ==
  /\ FrameDone /\ ~frame.data_null
  /\ pre.config_.width = 1 /\ pre.config_.height = 0 /\ pre.config_changed_
  /\ calls["frame"] # << >>

\* C16: the scratch frame is allocated by every successful open and freed by
\* every close: one scratch frame is held while Running and none while
\* Stopped or Initial.
C16_ScratchFollowsOpen ==
  AtRest =>
     /\ state_ = kRunning => rgb_frame_.alloc
     /\ state_ \in {kInitial, kStopped} => ~rgb_frame_.alloc

\* the calls that release a handle or a device reference
Releases == {"uvc_close", "uvc_unref_device"}

\* C17: a handle is closed and a device reference released only when one is
\* held: CloseCamera is entered only in state Running, every release finds
\* its handle open or its reference held, and a reference obtained by a find
\* is held until the one release that follows, on failure and on close alike.
C17_ReleaseOnlyHeld ==
  /\ fault # "assert:436"
  /\ \A t \in Threads : pc[t] = "cc" => (state_ = kRunning /\ hOpen /\ devRefs = 1)
  /\ \A t \in Threads : \A i \in 1..Len(calls[t]) :
       calls[t][i].fn \in Releases => calls[t][i].ok
  /\ devRefs \in {0, 1}
  /\ \A t \in {"main", "cfg"} :
       pc[t] \in {"rc_ctl", "ret", "stop_exit"} =>
          /\ devRefs = IF state_ = kRunning THEN 1 ELSE 0
          /\ hOpen <=> state_ = kRunning
  /\ AtRest => (devRefs = IF state_ = kRunning THEN 1 ELSE 0)

\* C17 witness: an open that failed at the stream start has released the
\* handle and the reference it had obtained
C17_Witness ==
  /\ pc["cfg"] = "ret" /\ openResult["cfg"] = "stream" /\ devRefs = 0
  /\ HasCall("cfg", "uvc_find_device") /\ HasCall("cfg", "uvc_unref_device")

\* the status callback has run to its return
StatusDone == pc["status"] = "ret" /\ op["status"] = "Status"
\* the snapshot field a recognised event is about, "none" for any other event
FieldOfEvent(e) ==
  IF e.attribute # "VALUE_CHANGE" THEN "none"
  ELSE IF e.class = "CONTROL_CAMERA" /\ e.selector = "CT_EXPOSURE_TIME_ABSOLUTE"
  THEN "exposure_absolute"
  ELSE IF e.class = "CONTROL_PROCESSING" /\ e.selector = "PU_WHITE_BALANCE_TEMPERATURE"
  THEN "white_balance_temperature"
  ELSE "none"

\* C18: an event that is not a VALUE_CHANGE of (camera, absolute exposure) or
\* (processing, white-balance temperature) leaves the snapshot and the dirty
\* flag as they were; a recognised one writes its one snapshot field and sets
\* the flag; neither changes the state or the device handle.
C18_StatusEventEffect ==
  StatusDone =>
     LET f == FieldOfEvent(status) IN
     /\ state_ = pre.state_ /\ devh_ = pre.devh_ /\ rgb_frame_ = pre.rgb_frame_
     /\ f = "none" =>
          (config_ = pre.config_ /\ config_changed_ = pre.config_changed_)
     /\ f # "none" =>
          /\ config_changed_
          /\ \A g \in DOMAIN config_ : g # f => config_[g] = pre.config_[g]
          /\ f = "exposure_absolute" => config_[f] = 2000
          /\ f = "white_balance_temperature" => config_[f] = 200

\* C18 witness: an exposure event has changed the snapshot and set the flag
C18_Witness ==
  /\ StatusDone /\ FieldOfEvent(status) = "exposure_absolute"
  /\ config_ # pre.config_ /\ ~pre.config_changed_ /\ config_changed_

\* the device-layer calls that take the device handle
HandleCalls ==
  ControlSetters \cup
  {"uvc_set_status_callback", "uvc_get_stream_ctrl_format_size",
   "uvc_start_iso_streaming", "uvc_print_diag", "uvc_close"}
\* call i of thread t is issued on a handle closed by an earlier call j, with
\* no uvc_open in between
OnClosedHandle(t, i) ==
  \E j \in 1..(i - 1) :
     /\ calls[t][j].fn = "uvc_close"
     /\ \A k \in (j + 1)..(i - 1) : ~(calls[t][k].fn = "uvc_open" /\ calls[t][k].ok)

\* C19: no call that takes the device handle is issued on a handle that has
\* been closed, on any path, the failure paths of OpenCamera included; the
\* control writes of a handler go to an open handle.
C19_NoUseAfterClose ==
  /\ \A t \in Threads : \A i \in 1..Len(calls[t]) :
       calls[t][i].fn \in HandleCalls => ~OnClosedHandle(t, i)
  /\ \A t \in {"main", "cfg"} : (pc[t] = "rc_ctl" /\ state_ = kRunning) => hOpen

\* C20: in every frame callback that reaches the copy, the bytes copied into
\* the image's buffer (the captured frame's for BGR, RGB and UYVY, the scratch
\* frame's for converted encodings) do not exceed the buffer's size, stored
\* width x height x 3.
C20_CopyWithinBuffer ==
  /\ fault # "fault:memcpy"
  /\ \A i \in Publishes : calls["frame"][i].val2 <= calls["frame"][i].val

====
